---- MODULE Spec2Model ----
(***************************************************************************)
(* The audio-room page (AudioRoomPage, src/unnamed/part_002): one React    *)
(* component instance ("session") per participant, the realtime relay      *)
(* (presence + broadcast) that connects them, and the posts row that     *)
(* carries audio_room_active.  The live-chat page                          *)
(* (ChatPage, src/app/chat/[postId]/page.tsx) is modelled beside it: its   *)
(* history load and its realtime INSERT handler.                           *)
(*                                                                         *)
(* A state update and the re-render it causes (effect cleanups, then       *)
(* effect bodies) are one step: React flushes the render before the next   *)
(* timer, network or UI event is handled.  Every await in the source is a  *)
(* separate step, so anything may happen between a call and its            *)
(* continuation.  The build modelled is the production build               *)
(* (isDev = FALSE), a secure context with getUserMedia available.          *)
(***************************************************************************)
EXTENDS Integers, Sequences, FiniteSets, TLC

(* ------------------------------ bounds -------------------------------- *)
\* longest profile id drawn for the initiator election, in code units
MaxIdLen == 3
\* code units are 1..MaxCodeUnit
MaxCodeUnit == 2
\* signal events the relay holds undelivered at one time
MaxInflight == 2
\* user and environment events in one run: role-button and end-room clicks,
\* getUserMedia calls, transport failures, sessions leaving
MaxEvents == 2
\* microphone streams drawn for a session when a call sequence is applied to
\* an arbitrary state of the microphone
MaxLawStreams == 3
\* presence metas one key of the presence state holds (one per open page of
\* the profile)
MaxMetas == 2
\* messages of the post in post_chats, those sent before the chat page
\* opens included
MaxMessages == 2

(* ------------------------- ids and string order ----------------------- *)
\* A profile id is a string: a sequence of code units.
Strings == UNION {[1..k -> 1..MaxCodeUnit] : k \in 0..MaxIdLen}

\* null, and the empty string: both are falsy under !!
NULL == <<>>

\* the three profiles of the room: "a" < "ab" < "b"
U1 == <<1>>
U2 == <<1, 2>>
U3 == <<2>>
Ids == {U1, U2, U3}

\* posts.user_id of the room's post
PostOwner == U2

\* JavaScript's < on two strings: the first differing code unit decides,
\* and a proper prefix is smaller.
RECURSIVE StrLessFrom(_, _, _)
StrLessFrom(a, b, i) ==
  IF i > Len(b) THEN FALSE
  ELSE IF i > Len(a) THEN TRUE
  ELSE IF a[i] # b[i] THEN a[i] < b[i]
  ELSE StrLessFrom(a, b, i + 1)

StrLess(a, b) == StrLessFrom(a, b, 1)

\* a plausible slip: only the first code unit is compared
isInitiator_firstUnit(myId, remoteId) ==
  IF myId = NULL \/ remoteId = NULL THEN myId = NULL /\ remoteId # NULL
  ELSE myId[1] < remoteId[1]

isInitiator(myId, remoteId) == StrLess(myId, remoteId)

(* ------------------------------ state --------------------------------- *)
VARIABLES
  idA, idB, elected,   \* the initiator election on drawn ids
  law,                 \* the stopMic(); startMic() sequence applied to a drawn session state
  posts,               \* the posts row: audio_room_active and the updates applied to it
  sync,                \* one run of the presence sync handler on a drawn presence state
  chat,                \* the live-chat page: post_chats, the loads and the displayed list
  mounted,             \* the session's component is mounted
  profileId,           \* useState profileId
  postOwnerId,         \* useState postOwnerId
  myRole,              \* useState myRole
  participants,        \* useState participants: id -> role, Absent if not listed
  remoteStreams,       \* useState remoteStreams: the ids that have a stream
  localStream,         \* localStreamRef.current: 0 is null, else the stream
  liveStreams,         \* acquired microphone streams whose tracks are not stopped
  micPending,          \* getUserMedia calls that have not settled
  pool,                \* peersRef.current: remote id -> peer
  orphans,             \* live peer objects no longer referenced by the pool
  channelRef,          \* channelRef.current and the channel's join state
  madeActiveOnce,      \* madeActiveOnceRef.current
  micTimer,            \* the debounce timer of the peer-plan effect is armed
  rebuildTimers,       \* armed rebuild timers: <<remote id, closure role>> -> count
  conts,               \* suspended async functions: continuation -> count
  spres,               \* the relay's presence state: id -> tracked role
  syncDue,             \* a presence sync event is on its way to the session
  inflight,            \* broadcast signal events on their way to a session
  writes,              \* the audio_room_active updates issued, in order
  events               \* events counted against MaxEvents

vars == <<idA, idB, elected, law, posts, sync, chat, mounted, profileId, postOwnerId, myRole,
          participants, remoteStreams, localStream, liveStreams, micPending,
          pool, orphans, channelRef, madeActiveOnce, micTimer,
          rebuildTimers, conts, spres, syncDue, inflight, writes,
          events>>

electVars == <<idA, idB, elected, law, posts, sync, chat>>

roomVars == <<mounted, profileId, postOwnerId, myRole,
          participants, remoteStreams, localStream, liveStreams, micPending,
          pool, orphans, channelRef, madeActiveOnce, micTimer,
          rebuildTimers, conts, spres, syncDue, inflight, writes,
          events>>

Absent == "absent"
Roles == {"listener", "speaker"}

\* process.env.NODE_ENV === 'development'
isDev == FALSE
\* hmrDisposingRef.current: only a development build ever sets it
hmrDisposing == FALSE

\* no entry in peersRef.current
NoPeer == [st |-> "none", initiator |-> FALSE, tracks |-> {}, crole |-> "listener",
           origin |-> "none", emit |-> 0, got |-> {}, failed |-> FALSE]

\* The updates of posts.audio_room_active issued so far: how many wrote true,
\* how many wrote false, and the value of the latest one.
NoWrites == [trues |-> 0, falses |-> 0, last |-> "none"]

\* isOwner as a render computes it
IsOwnerOf(prof, own) == prof # NULL /\ own # NULL /\ prof = own

isOwner(p) == IsOwnerOf(profileId[p], postOwnerId[p])

Continuations == {"subscribe", "becomeSpeaker", "becomeListener", "endRoom"}
TimerKeys == Ids \X Roles

RoomInit(present) ==
  /\ mounted = [p \in Ids |-> p \in present]
  /\ profileId = [p \in Ids |-> NULL]
  /\ postOwnerId = [p \in Ids |-> NULL]
  /\ myRole = [p \in Ids |-> "listener"]
  /\ participants = [p \in Ids |-> [r \in Ids |-> Absent]]
  /\ remoteStreams = [p \in Ids |-> {}]
  /\ localStream = [p \in Ids |-> 0]
  /\ liveStreams = [p \in Ids |-> {}]
  /\ micPending = [p \in Ids |-> {}]
  /\ pool = [p \in Ids |-> [r \in Ids |-> NoPeer]]
  /\ orphans = [p \in Ids |-> [r \in Ids |-> 0]]
  /\ channelRef = [p \in Ids |-> "null"]
  /\ madeActiveOnce = [p \in Ids |-> FALSE]
  /\ micTimer = [p \in Ids |-> FALSE]
  /\ rebuildTimers = [p \in Ids |-> [k \in TimerKeys |-> 0]]
  /\ conts = [p \in Ids |-> [c \in Continuations |-> 0]]
  /\ spres = [p \in Ids |-> Absent]
  /\ syncDue = [p \in Ids |-> FALSE]
  /\ inflight = {}
  /\ writes = NoWrites
  /\ events = 0

LawIdle == [pc |-> "off", pending |-> {}, held |-> 0]

\* The posts row before any update of the session is applied: the value of
\* audio_room_active, how many issued updates of each value the database has
\* applied, and whether the update to true was applied while the owner's page
\* was still mounted.
PostsIdle == [flag |-> FALSE, appliedTrue |-> 0, appliedFalse |-> 0, liveTrue |-> FALSE]

\* the presence sync handler has not been given a drawn presence state
SyncIdle == [pc |-> "off", keys |-> <<>>, metas |-> <<>>, prev |-> <<>>, flat |-> <<>>]

\* the live-chat page is not open
ChatIdle == [pc |-> "off", table |-> {}, snapshot |-> {}, messages |-> <<>>,
             sub |-> "off", due |-> {}, fetching |-> {}, notified |-> {}]

ElectIdle ==
  /\ idA = NULL /\ idB = NULL /\ elected = <<>> /\ law = LawIdle /\ posts = PostsIdle
  /\ sync = SyncIdle /\ chat = ChatIdle

\* the owner and one other participant, on either side of the owner in string order
Rooms == {{PostOwner, other} : other \in Ids \ {PostOwner}}

Init == ElectIdle /\ \E present \in Rooms : RoomInit(present)

\* the owner and two other participants
InitMesh == ElectIdle /\ RoomInit(Ids)

\* two drawn ids, not yet compared
InitElect ==
  /\ idA \in Strings
  /\ idB \in Strings
  /\ elected = <<>>
  /\ law = LawIdle
  /\ posts = PostsIdle
  /\ sync = SyncIdle /\ chat = ChatIdle
  /\ RoomInit({})

(* --------------------------- peers and mic ---------------------------- *)
\* new Peer({ initiator, ... }) inside a render whose myRole is crole; an
\* initiator has an offer to emit.  failed: the peer's own transport has
\* reported failed or disconnected.
createPeer(initiator, crole, origin) ==
  [st |-> "live", initiator |-> initiator, tracks |-> {}, crole |-> crole,
   origin |-> origin, emit |-> IF initiator THEN 1 ELSE 0, got |-> {},
   failed |-> FALSE]

\* peer.addTrack for every track of the stream; a throw is swallowed
attachLocalTracksToPeer(peer, stream) ==
  IF peer.st = "live" THEN [peer EXCEPT !.tracks = @ \cup {stream}] ELSE peer

\* a slip: a new peer is never given the local tracks
AttachIfSpeaking_never(peer, role, stream) == peer

\* the attach that follows every createPeer
AttachIfSpeaking(peer, role, stream) ==
  IF role = "speaker" /\ stream # 0 THEN attachLocalTracksToPeer(peer, stream) ELSE peer

\* a slip: destroy() is left out
DestroyPeer_skipped(peer) == peer

\* peer.destroy()
DestroyPeer(peer) == IF peer.st = "live" THEN [peer EXCEPT !.st = "destroyed"] ELSE peer

\* a peer object that is dropped from the pool while live stays live
Leaked(peer) == IF peer.st = "live" THEN 1 ELSE 0

\* a slip: stopMic clears the ref without stopping the tracks
StoppedStreams_kept(p) == liveStreams[p]

\* stopMic(): the tracks of the held stream are stopped, the ref is cleared
StoppedStreams(p) == liveStreams[p] \ {localStream[p]}

\* a slip: only remote speakers are candidates
Candidates_remoteSpeakers(prof, role, parts) ==
  {r \in Ids : parts[r] # Absent /\ r # prof /\ parts[r] = "speaker"}

\* the peer-plan effect's candidates
Candidates(prof, role, parts) ==
  {r \in Ids : parts[r] # Absent /\ r # prof
               /\ (role = "speaker" \/ parts[r] = "speaker")}

\* the peer-plan effect's forEach over the candidates
PlanPool(prof, poolp, role, parts, stream) ==
  [r \in Ids |->
     IF r \in Candidates(prof, role, parts) /\ poolp[r].st = "none"
     THEN AttachIfSpeaking(createPeer(isInitiator(prof, r), role, "plan"), role, stream)
     ELSE poolp[r]]

\* a slip: only the activation is written
setRoomActive_activateOnly(w, active) ==
  IF active THEN [w EXCEPT !.trues = @ + 1, !.last = "true"] ELSE w

\* setRoomActive(active): the update is issued at the call
setRoomActive(w, active) ==
  IF active THEN [w EXCEPT !.trues = @ + 1, !.last = "true"]
  ELSE [w EXCEPT !.falses = @ + 1, !.last = "false"]

(* ------------------------------ re-render ----------------------------- *)
\* The debounce timer armed by the peer-plan effect is kept in the state only
\* where its callback can do something: with role listener, no stream held
\* and no getUserMedia pending, the callback is stopMic() with nothing to
\* stop, and nothing can be acquired before the effect arms a new timer.
TimerMatters(p, role, stream) == role = "speaker" \/ stream # 0 \/ micPending[p] # {}

\* a slip: the cleanup leaves the flag alone
CleanupDeactivates_never(wasOwner) == FALSE

\* a slip: the cleanup writes false whoever leaves
CleanupDeactivates_always(wasOwner) == TRUE

\* the cleanup's last line: if (isOwner) void setRoomActive(false)
CleanupDeactivates(wasOwner) == wasOwner

\* Session p's state becomes (prof, own, role, parts) and the component
\* re-renders: the cleanups of the effects whose dependencies changed run with
\* the previous render's values, then the effect bodies with the new ones.
\* partsSet: setParticipants was called (a new array, whatever it holds).
\* track: the role the handler tracked on channelRef.current before yielding,
\* or "skip".  writes0: the flag updates once the handler has yielded.
\* joinNow: the step starts with the relay acknowledging the channel's join.
Commit(p, prof, own, role, parts, partsSet, track, writes0, joinNow) ==
  LET wasOwner   == isOwner(p)
      chan0      == IF joinNow THEN "subscribed" ELSE channelRef[p]
      wiringDeps == prof # profileId[p] \/ IsOwnerOf(prof, own) # wasOwner
                    \/ role # myRole[p]
      planDeps   == partsSet \/ role # myRole[p] \/ prof # profileId[p]
      \* the wiring effect's cleanup exists and is not exempted
      teardown   == wiringDeps /\ profileId[p] # NULL /\ ~(isDev /\ hmrDisposing)
      pres0      == IF track # "skip" /\ chan0 # "null"
                    THEN [spres EXCEPT ![p] = track] ELSE spres
      pres1      == IF teardown THEN [pres0 EXCEPT ![p] = Absent] ELSE pres0
      chan1      == IF teardown THEN "null" ELSE chan0
      chan2      == IF wiringDeps /\ prof # NULL THEN "joining" ELSE chan1
      stream1    == IF teardown THEN 0 ELSE localStream[p]
      pool1      == IF teardown THEN [r \in Ids |-> NoPeer] ELSE pool[p]
      orph1      == IF teardown
                    THEN [r \in Ids |-> orphans[p][r] + Leaked(DestroyPeer(pool[p][r]))]
                    ELSE orphans[p]
      planRuns   == planDeps /\ prof # NULL
      pool2      == IF planRuns THEN PlanPool(prof, pool1, role, parts, stream1) ELSE pool1
      orph2      == [r \in Ids |->
                       orph1[r] + IF pool2[r] # pool1[r] THEN Leaked(pool1[r]) ELSE 0]
  IN  /\ profileId' = [profileId EXCEPT ![p] = prof]
      /\ postOwnerId' = [postOwnerId EXCEPT ![p] = own]
      /\ myRole' = [myRole EXCEPT ![p] = role]
      /\ participants' = [participants EXCEPT ![p] = parts]
      /\ remoteStreams' = [remoteStreams EXCEPT ![p] = IF teardown THEN {} ELSE @]
      /\ localStream' = [localStream EXCEPT ![p] = stream1]
      /\ liveStreams' = [liveStreams EXCEPT ![p] = IF teardown THEN StoppedStreams(p) ELSE @]
      /\ pool' = [pool EXCEPT ![p] = pool2]
      /\ orphans' = [orphans EXCEPT ![p] = orph2]
      /\ channelRef' = [channelRef EXCEPT ![p] = chan2]
      /\ micTimer' = [micTimer EXCEPT ![p] =
                        IF planRuns THEN TimerMatters(p, role, stream1)
                        ELSE IF planDeps THEN FALSE ELSE @]
      /\ spres' = pres1
      /\ syncDue' = [q \in Ids |->
                       IF q = p
                       THEN chan2 = "subscribed" /\ (syncDue[p] \/ joinNow \/ pres1 # spres)
                       ELSE syncDue[q] \/ (channelRef[q] = "subscribed" /\ pres1 # spres)]
      /\ inflight' = IF teardown THEN {e \in inflight : e.to # p} ELSE inflight
      /\ writes' = IF teardown /\ CleanupDeactivates(wasOwner)
                   THEN setRoomActive(writes0, FALSE) ELSE writes0

\* what a re-render leaves alone
CommitFrame == UNCHANGED <<electVars, mounted, micPending, madeActiveOnce,
                           rebuildTimers>>

(* ------------------------- auth and post owner ------------------------ *)
\* the auth effect: setProfileId(user.id).  For a session whose profile is
\* not the post's owner the post-owner fetch changes nothing any handler
\* reads (isOwner stays false), so only the order in which it settles first
\* is explored.
LoadAuth(p) ==
  /\ mounted[p] /\ profileId[p] = NULL
  /\ p # PostOwner => postOwnerId[p] # NULL
  /\ Commit(p, p, postOwnerId[p], myRole[p], participants[p], FALSE, "skip", writes, FALSE)
  /\ CommitFrame /\ UNCHANGED <<conts, events>>

\* the post-owner effect: setPostOwnerId(data.user_id)
LoadPostOwner(p) ==
  /\ mounted[p] /\ postOwnerId[p] = NULL
  /\ Commit(p, profileId[p], PostOwner, myRole[p], participants[p], FALSE, "skip", writes, FALSE)
  /\ CommitFrame /\ UNCHANGED <<conts, events>>

(* ------------------------------ the relay ----------------------------- *)
\* the subscribe callback's initial role
InitialRole(owner) == IF owner THEN "speaker" ELSE "listener"

\* channel.subscribe's callback with status SUBSCRIBED.  The channel's own
\* presence state is empty when the join is acknowledged, so the callback
\* always takes its if-branch.  What follows the await of track() does
\* something only for initial = speaker and isOwner.
Subscribed(p) ==
  /\ channelRef[p] = "joining"
  /\ LET initial == InitialRole(isOwner(p))
     IN  /\ Commit(p, profileId[p], postOwnerId[p], initial, participants[p],
                   FALSE, initial, writes, TRUE)
         /\ conts' = [conts EXCEPT ![p]["subscribe"] =
                        IF initial = "speaker" /\ isOwner(p) THEN @ + 1 ELSE @]
  /\ CommitFrame /\ UNCHANGED events

\* !madeActiveOnceRef.current, as the subscribe callback tests it
SubscribeActivates(p) == ~madeActiveOnce[p]

\* the subscribe callback after await channel.track(...)
SubscribeTrackDone(p) ==
  /\ conts[p]["subscribe"] > 0
  /\ conts' = [conts EXCEPT ![p]["subscribe"] = @ - 1]
  /\ IF SubscribeActivates(p)
     THEN /\ madeActiveOnce' = [madeActiveOnce EXCEPT ![p] = TRUE]
          /\ writes' = setRoomActive(writes, TRUE)
     ELSE UNCHANGED <<madeActiveOnce, writes>>
  /\ UNCHANGED <<electVars, mounted, profileId, postOwnerId, myRole, participants,
                 remoteStreams, localStream, liveStreams, micPending, pool,
                 orphans, channelRef, micTimer, rebuildTimers, spres, syncDue,
                 inflight, events>>

\* the presence sync handler: the list is rebuilt from the presence state,
\* with the local role for the local id
Flatten(p) ==
  [u \in Ids |-> IF spres[u] = Absent THEN Absent
                 ELSE IF u = profileId[p] THEN myRole[p] ELSE spres[u]]

PresenceSync(p) ==
  /\ channelRef[p] = "subscribed" /\ syncDue[p]
  /\ Commit(p, profileId[p], postOwnerId[p], myRole[p], Flatten(p), TRUE, "skip", writes, FALSE)
  /\ CommitFrame /\ UNCHANGED <<conts, events>>

(* ------------------------------ mic control --------------------------- *)
\* A stream is named by a number; a new one takes the smallest number that
\* names no stream the session still refers to.
StreamsInUse(p) ==
  liveStreams[p] \cup micPending[p] \cup {localStream[p]}
  \cup UNION {pool[p][r].tracks : r \in Ids}

StreamIds == 1..(MaxEvents + MaxLawStreams + 1)

FreshStream(p) == CHOOSE s \in StreamIds : s \notin StreamsInUse(p)
                                          /\ \A t \in 1..(s - 1) : t \in StreamsInUse(p)

\* a slip: startMic does not look at the role
StartMicAllowed_anyRole(role) == TRUE

\* startMic's first test
StartMicAllowed(role) == role = "speaker"

\* startMic() up to its await of getUserMedia, in a render whose myRole is
\* role: the stream ids the call will ask for, none if it returns early
StartMicCalls(p, role) ==
  IF ~StartMicAllowed(role) THEN {}
  ELSE IF localStream[p] # 0 THEN {}
  ELSE {FreshStream(p)}

\* the debounce timer of the peer-plan effect fires
MicTimerFire(p) ==
  /\ micTimer[p]
  /\ micTimer' = [micTimer EXCEPT ![p] = FALSE]
  /\ IF myRole[p] = "speaker"
     THEN LET calls == StartMicCalls(p, myRole[p])
          IN  /\ calls # {} => events < MaxEvents
              /\ micPending' = [micPending EXCEPT ![p] = @ \cup calls]
              /\ events' = events + Cardinality(calls)
              /\ UNCHANGED <<localStream, liveStreams>>
     ELSE /\ liveStreams' = [liveStreams EXCEPT ![p] = StoppedStreams(p)]
          /\ localStream' = [localStream EXCEPT ![p] = 0]
          /\ UNCHANGED <<micPending, events>>
  /\ UNCHANGED <<electVars, mounted, profileId, postOwnerId, myRole, participants,
                 remoteStreams, pool, orphans, channelRef, madeActiveOnce,
                 rebuildTimers, conts, spres, syncDue, inflight, writes>>

\* startMic after await getUM(...): the stream is stored and attached to
\* every peer of the pool
GetUserMediaResolve(p) ==
  /\ \E s \in micPending[p] :
       /\ micPending' = [micPending EXCEPT ![p] = @ \ {s}]
       /\ localStream' = [localStream EXCEPT ![p] = s]
       /\ liveStreams' = [liveStreams EXCEPT ![p] = @ \cup {s}]
       /\ pool' = [pool EXCEPT ![p] =
                     [r \in Ids |-> attachLocalTracksToPeer(pool[p][r], s)]]
  /\ UNCHANGED <<electVars, mounted, profileId, postOwnerId, myRole, participants,
                 remoteStreams, orphans, channelRef, madeActiveOnce,
                 micTimer, rebuildTimers, conts, spres, syncDue, inflight,
                 writes, events>>

\* getUM rejects: the catch block alerts
GetUserMediaReject(p) ==
  /\ \E s \in micPending[p] : micPending' = [micPending EXCEPT ![p] = @ \ {s}]
  /\ UNCHANGED <<electVars, mounted, profileId, postOwnerId, myRole, participants,
                 remoteStreams, localStream, liveStreams, pool, orphans,
                 channelRef, madeActiveOnce, micTimer, rebuildTimers, conts, spres,
                 syncDue, inflight, writes, events>>

(* ------------------------------ role toggles -------------------------- *)
\* a slip: becomeSpeaker lets anyone through
BecomeSpeakerRefused_nobody(owner) == FALSE

\* becomeSpeaker's first test: if (!isOwner) { alert(...); return; }
BecomeSpeakerRefused(owner) == ~owner

\* the "Become Speaker" button, shown while myRole is not speaker.  A
\* non-owner gets the alert and nothing changes.
BecomeSpeaker(p) ==
  /\ mounted[p] /\ myRole[p] # "speaker"
  /\ IF BecomeSpeakerRefused(isOwner(p))
     THEN UNCHANGED vars
     ELSE /\ events < MaxEvents
          /\ events' = events + 1
          /\ Commit(p, profileId[p], postOwnerId[p], "speaker", participants[p],
                    FALSE, "speaker", writes, FALSE)
          /\ conts' = [conts EXCEPT ![p]["becomeSpeaker"] = @ + 1]
          /\ CommitFrame

\* a slip: becomeSpeaker writes true on every call
BecomeSpeakerActivates_always(p) == TRUE

\* !madeActiveOnceRef.current, as becomeSpeaker tests it
BecomeSpeakerActivates(p) == ~madeActiveOnce[p]

\* becomeSpeaker after await channelRef.current?.track(...)
BecomeSpeakerTrackDone(p) ==
  /\ conts[p]["becomeSpeaker"] > 0
  /\ conts' = [conts EXCEPT ![p]["becomeSpeaker"] = @ - 1]
  /\ IF BecomeSpeakerActivates(p)
     THEN /\ madeActiveOnce' = [madeActiveOnce EXCEPT ![p] = TRUE]
          /\ writes' = setRoomActive(writes, TRUE)
     ELSE UNCHANGED <<madeActiveOnce, writes>>
  /\ UNCHANGED <<electVars, mounted, profileId, postOwnerId, myRole, participants,
                 remoteStreams, localStream, liveStreams, micPending, pool,
                 orphans, channelRef, micTimer, rebuildTimers, spres, syncDue,
                 inflight, events>>

\* the "Become Listener" button, shown while myRole is speaker.  What
\* follows the await does something only for the owner.
BecomeListener(p) ==
  /\ mounted[p] /\ myRole[p] = "speaker"
  /\ events < MaxEvents
  /\ events' = events + 1
  /\ Commit(p, profileId[p], postOwnerId[p], "listener", participants[p],
            FALSE, "listener", writes, FALSE)
  /\ conts' = [conts EXCEPT ![p]["becomeListener"] = IF isOwner(p) THEN @ + 1 ELSE @]
  /\ CommitFrame

\* becomeListener after await channelRef.current?.track(...)
BecomeListenerTrackDone(p) ==
  /\ conts[p]["becomeListener"] > 0
  /\ conts' = [conts EXCEPT ![p]["becomeListener"] = @ - 1]
  /\ writes' = setRoomActive(writes, FALSE)
  /\ UNCHANGED <<electVars, mounted, profileId, postOwnerId, myRole, participants,
                 remoteStreams, localStream, liveStreams, micPending, pool,
                 orphans, channelRef, madeActiveOnce, micTimer, rebuildTimers, spres,
                 syncDue, inflight, events>>

\* the "End Room" button, rendered for the owner: stopMic(), then track
EndRoom(p) ==
  /\ mounted[p] /\ isOwner(p)
  /\ events < MaxEvents
  /\ events' = events + 1
  /\ liveStreams' = [liveStreams EXCEPT ![p] = StoppedStreams(p)]
  /\ localStream' = [localStream EXCEPT ![p] = 0]
  /\ LET pres == IF channelRef[p] # "null" THEN [spres EXCEPT ![p] = "listener"] ELSE spres
     IN  /\ spres' = pres
         /\ syncDue' = [q \in Ids |->
                          syncDue[q] \/ (channelRef[q] = "subscribed" /\ pres # spres)]
  /\ conts' = [conts EXCEPT ![p]["endRoom"] = @ + 1]
  /\ UNCHANGED <<electVars, mounted, profileId, postOwnerId, myRole, participants,
                 remoteStreams, micPending, pool, orphans, channelRef,
                 madeActiveOnce, micTimer, rebuildTimers, inflight, writes>>

\* endRoom after await channelRef.current?.track(...): setMyRole('listener'),
\* then setRoomActive(false); an unmounted component ignores the state update
EndRoomTrackDone(p) ==
  /\ conts[p]["endRoom"] > 0
  /\ conts' = [conts EXCEPT ![p]["endRoom"] = @ - 1]
  /\ IF mounted[p]
     THEN Commit(p, profileId[p], postOwnerId[p], "listener", participants[p],
                 FALSE, "skip", setRoomActive(writes, FALSE), FALSE)
     ELSE /\ writes' = setRoomActive(writes, FALSE)
          /\ UNCHANGED <<profileId, postOwnerId, myRole, participants, remoteStreams,
                         localStream, liveStreams, pool, orphans, channelRef, micTimer,
                         spres, syncDue, inflight>>
  /\ CommitFrame /\ UNCHANGED events

(* ------------------------------ signalling ---------------------------- *)
\* peer.on('signal'): the PeerLink for r emits a signal, which the relay
\* hands to every other subscribed session.  dst is not part of the
\* payload: it records which remote the emitting PeerLink was created for.
PeerSignal(p, r) ==
  /\ pool[p][r].st = "live" /\ pool[p][r].emit > 0
  /\ pool' = [pool EXCEPT ![p][r].emit = @ - 1]
  /\ LET carried == IF channelRef[p] = "null" THEN {}
                    ELSE {[from |-> p, dst |-> r, to |-> q] :
                            q \in {x \in Ids \ {p} : channelRef[x] = "subscribed"}}
     IN  /\ Cardinality(inflight \cup carried) <= MaxInflight
         /\ inflight' = inflight \cup carried
  /\ UNCHANGED <<electVars, mounted, profileId, postOwnerId, myRole, participants,
                 remoteStreams, localStream, liveStreams, micPending,
                 orphans, channelRef, madeActiveOnce, micTimer, rebuildTimers, conts,
                 spres, syncDue, writes, events>>

\* a slip that would honour the election on demand
OnDemandInitiator_elected(i) == i

\* createPeer(i && false, from)
OnDemandInitiator(i) == i /\ FALSE

\* peer.signal(data): a responder answers the first signal it is given
SignalPeer(peer, dst) ==
  [peer EXCEPT !.got = @ \cup {dst},
               !.emit = IF ~peer.initiator /\ peer.got = {} THEN @ + 1 ELSE @]

\* the broadcast handler for the signal event e at session q
Receive(q, e) ==
  /\ e \in inflight /\ e.to = q
  /\ inflight' = inflight \ {e}
  /\ IF e.from = profileId[q]
     THEN UNCHANGED <<pool>>
     ELSE LET had   == pool[q][e.from]
              entry == IF had.st = "none"
                       THEN AttachIfSpeaking(
                              createPeer(OnDemandInitiator(isInitiator(profileId[q], e.from)),
                                         myRole[q], "signal"),
                              myRole[q], localStream[q])
                       ELSE had
          IN  \* signal() on a destroyed peer throws; the entry stays as it is
              pool' = [pool EXCEPT ![q][e.from] =
                         IF entry.st = "live" THEN SignalPeer(entry, e.dst) ELSE entry]
  /\ UNCHANGED <<electVars, mounted, profileId, postOwnerId, myRole, participants,
                 remoteStreams, localStream, liveStreams, micPending,
                 orphans, channelRef, madeActiveOnce, micTimer, rebuildTimers, conts,
                 spres, syncDue, writes, events>>

\* peer.on('stream') / peer.on('track'): attachRemote(remoteId, stream), once
\* the link has been signalled and the remote end sends its tracks
RemoteStream(p, r) ==
  /\ mounted[p]
  /\ pool[p][r].st = "live" /\ pool[p][r].got # {}
  /\ pool[r][p].st = "live" /\ pool[r][p].tracks # {}
  /\ r \notin remoteStreams[p]
  /\ remoteStreams' = [remoteStreams EXCEPT ![p] = @ \cup {r}]
  /\ UNCHANGED <<electVars, mounted, profileId, postOwnerId, myRole, participants,
                 localStream, liveStreams, micPending, pool, orphans,
                 channelRef, madeActiveOnce, micTimer, rebuildTimers, conts, spres,
                 syncDue, inflight, writes, events>>

(* ------------------------------ rebuild ------------------------------- *)
\* a state listener of the PeerLink for r sees failed or disconnected and
\* arms setTimeout(() => attemptRebuild(remoteId), 1500) in the closure of
\* the render that created the peer
ArmRebuild(p, r) ==
  /\ pool[p][r].st = "live"
  /\ events < MaxEvents
  /\ events' = events + 1
  /\ rebuildTimers' = [rebuildTimers EXCEPT ![p][<<r, pool[p][r].crole>>] = @ + 1]
  /\ pool' = [pool EXCEPT ![p][r].failed = TRUE]
  /\ UNCHANGED <<electVars, mounted, profileId, postOwnerId, myRole, participants,
                 remoteStreams, localStream, liveStreams, micPending,
                 orphans, channelRef, madeActiveOnce, micTimer, conts, spres, syncDue,
                 inflight, writes>>

\* the iceconnectionstatechange listener
IceStateFailed(p, r) == ArmRebuild(p, r)

\* the connectionstatechange listener
ConnStateFailed(p, r) == ArmRebuild(p, r)

\* a slip: the rebuilt peer is always a responder
RebuildInitiator_never(myId, remoteId) == FALSE

\* attemptRebuild's const i
RebuildInitiator(myId, remoteId) == isInitiator(myId, remoteId)

\* attemptRebuild(remoteId) in a closure whose profileId is p and whose
\* myRole is crole: the pool entry and its leak count after the call
Rebuilt(p, r, crole) ==
  LET current == pool[p][r]
      gone    == DestroyPeer(current)
      fresh   == AttachIfSpeaking(createPeer(RebuildInitiator(p, r), crole, "rebuild"),
                                  crole, localStream[p])
  IN  [peer |-> fresh, leaked |-> Leaked(gone)]

\* a slip: attemptRebuild goes on without a current peer
RebuildSkipped_never(current) == FALSE

\* attemptRebuild's first test: if (!current) return
RebuildSkipped(current) == current.st = "none"

\* a rebuild timer fires
RebuildTimerFire(p, r, crole) ==
  /\ rebuildTimers[p][<<r, crole>>] > 0
  /\ rebuildTimers' = [rebuildTimers EXCEPT ![p][<<r, crole>>] = @ - 1]
  /\ IF RebuildSkipped(pool[p][r])
     THEN UNCHANGED <<pool, orphans, remoteStreams>>
     ELSE /\ pool' = [pool EXCEPT ![p][r] = Rebuilt(p, r, crole).peer]
          /\ orphans' = [orphans EXCEPT ![p][r] = @ + Rebuilt(p, r, crole).leaked]
          /\ remoteStreams' = [remoteStreams EXCEPT ![p] = @ \ {r}]
  /\ UNCHANGED <<electVars, mounted, profileId, postOwnerId, myRole, participants,
                 localStream, liveStreams, micPending, channelRef,
                 madeActiveOnce, micTimer, conts, spres, syncDue, inflight,
                 writes, events>>

(* ------------------------------ leaving ------------------------------- *)
\* the component unmounts: every effect's cleanup runs, no body does, and
\* the component's state is discarded
Leave(p) ==
  /\ mounted[p]
  /\ events < MaxEvents
  /\ events' = events + 1
  /\ mounted' = [mounted EXCEPT ![p] = FALSE]
  /\ Commit(p, NULL, NULL, "listener", [r \in Ids |-> Absent], FALSE, "skip", writes, FALSE)
  /\ UNCHANGED <<electVars, micPending, madeActiveOnce, rebuildTimers, conts>>

(* --------------------------- specifications --------------------------- *)
Next ==
  \/ \E p \in Ids : LoadAuth(p)
  \/ \E p \in Ids : LoadPostOwner(p)
  \/ \E p \in Ids : Subscribed(p)
  \/ \E p \in Ids : SubscribeTrackDone(p)
  \/ \E p \in Ids : PresenceSync(p)
  \/ \E p \in Ids : MicTimerFire(p)
  \/ \E p \in Ids : GetUserMediaResolve(p)
  \/ \E p \in Ids : GetUserMediaReject(p)
  \/ \E p \in Ids : BecomeSpeaker(p)
  \/ \E p \in Ids : BecomeSpeakerTrackDone(p)
  \/ \E p \in Ids : BecomeListener(p)
  \/ \E p \in Ids : BecomeListenerTrackDone(p)
  \/ \E p \in Ids : EndRoom(p)
  \/ \E p \in Ids : EndRoomTrackDone(p)
  \/ \E p \in Ids, r \in Ids : PeerSignal(p, r)
  \/ \E p \in Ids, e \in inflight : Receive(p, e)
  \/ \E p \in Ids, r \in Ids : RemoteStream(p, r)
  \/ \E p \in Ids, r \in Ids : IceStateFailed(p, r)
  \/ \E p \in Ids, r \in Ids : ConnStateFailed(p, r)
  \/ \E p \in Ids, r \in Ids, crole \in Roles : RebuildTimerFire(p, r, crole)
  \/ \E p \in Ids : Leave(p)

Spec == Init /\ [][Next]_vars

\* Three sessions that join, learn of each other and signal; nobody clicks,
\* fails or leaves.  Every behaviour of SpecMesh is a behaviour of the room.
NextMesh ==
  \/ \E p \in Ids : LoadAuth(p)
  \/ \E p \in Ids : LoadPostOwner(p)
  \/ \E p \in Ids : Subscribed(p)
  \/ \E p \in Ids : SubscribeTrackDone(p)
  \/ \E p \in Ids : PresenceSync(p)
  \/ \E p \in Ids, r \in Ids : PeerSignal(p, r)
  \/ \E p \in Ids, e \in inflight : Receive(p, e)

SpecMesh == InitMesh /\ [][NextMesh]_vars

\* the election applied to the drawn ids
Elect ==
  /\ elected = <<>>
  /\ elected' = <<isInitiator(idA, idB), isInitiator(idB, idA)>>
  /\ UNCHANGED <<idA, idB, law, posts, sync, chat, roomVars>>

NextElect == Elect

SpecElect == InitElect /\ [][NextElect]_vars


(* ------------------ stopMic(); startMic() on a drawn state ------------ *)
\* The states of one session's microphone the room can reach: any role, any
\* set of streams still capturing, a held stream that is one of them, and
\* getUserMedia calls still pending.
LawStreams == 1..MaxLawStreams

InitMicLaw ==
  /\ idA = NULL /\ idB = NULL /\ elected = <<>>
  /\ law = [pc |-> "drawn", pending |-> {}, held |-> 0]
  /\ posts = PostsIdle
  /\ sync = SyncIdle /\ chat = ChatIdle
  /\ mounted = [p \in Ids |-> p = PostOwner]
  /\ profileId = [p \in Ids |-> IF p = PostOwner THEN p ELSE NULL]
  /\ postOwnerId = [p \in Ids |-> IF p = PostOwner THEN PostOwner ELSE NULL]
  /\ \E role \in Roles : myRole = [p \in Ids |-> IF p = PostOwner THEN role ELSE "listener"]
  /\ participants = [p \in Ids |-> [r \in Ids |-> Absent]]
  /\ remoteStreams = [p \in Ids |-> {}]
  /\ \E live \in SUBSET LawStreams, held \in {0} \cup LawStreams, pend \in SUBSET LawStreams :
       /\ held # 0 => held \in live
       /\ pend \cap live = {}
       /\ localStream = [p \in Ids |-> IF p = PostOwner THEN held ELSE 0]
       /\ liveStreams = [p \in Ids |-> IF p = PostOwner THEN live ELSE {}]
       /\ micPending = [p \in Ids |-> IF p = PostOwner THEN pend ELSE {}]
  /\ pool = [p \in Ids |-> [r \in Ids |-> NoPeer]]
  /\ orphans = [p \in Ids |-> [r \in Ids |-> 0]]
  /\ channelRef = [p \in Ids |-> IF p = PostOwner THEN "subscribed" ELSE "null"]
  /\ madeActiveOnce = [p \in Ids |-> FALSE]
  /\ micTimer = [p \in Ids |-> FALSE]
  /\ rebuildTimers = [p \in Ids |-> [k \in TimerKeys |-> 0]]
  /\ conts = [p \in Ids |-> [c \in Continuations |-> 0]]
  /\ spres = [p \in Ids |-> Absent]
  /\ syncDue = [p \in Ids |-> FALSE]
  /\ inflight = {}
  /\ writes = NoWrites
  /\ events = 0

\* stopMic()
LawStopMic(p) ==
  /\ law.pc = "drawn" /\ mounted[p]
  /\ law' = [pc |-> "stopped", pending |-> micPending[p], held |-> localStream[p]]
  /\ liveStreams' = [liveStreams EXCEPT ![p] = StoppedStreams(p)]
  /\ localStream' = [localStream EXCEPT ![p] = 0]
  /\ UNCHANGED <<idA, idB, elected, posts, sync, chat, mounted, profileId, postOwnerId, myRole,
                 participants, remoteStreams, micPending, pool, orphans, channelRef,
                 madeActiveOnce, micTimer, rebuildTimers, conts, spres, syncDue,
                 inflight, writes, events>>

\* startMic(), up to its await
LawStartMic(p) ==
  /\ law.pc = "stopped" /\ mounted[p]
  /\ law' = [law EXCEPT !.pc = "started"]
  /\ micPending' = [micPending EXCEPT ![p] = @ \cup StartMicCalls(p, myRole[p])]
  /\ UNCHANGED <<idA, idB, elected, posts, sync, chat, mounted, profileId, postOwnerId, myRole,
                 participants, remoteStreams, localStream, liveStreams, pool, orphans,
                 channelRef, madeActiveOnce, micTimer, rebuildTimers, conts, spres,
                 syncDue, inflight, writes, events>>

NextMicLaw ==
  \/ \E p \in Ids : LawStopMic(p)
  \/ \E p \in Ids : LawStartMic(p)

SpecMicLaw == InitMicLaw /\ [][NextMicLaw]_vars

(* ------------------------ the flag in the database ------------------- *)
\* the owner alone in the room
InitFlag == ElectIdle /\ RoomInit({PostOwner})

\* issued updates the database has not applied yet
OutstandingTrue == writes.trues - posts.appliedTrue
OutstandingFalse == writes.falses - posts.appliedFalse

\* The database applies one of the outstanding updates.  Every update is a
\* request of its own (void setRoomActive(...)), so the requests of a
\* session reach the database in any order.
ApplyWrite(active) ==
  /\ IF active THEN OutstandingTrue > 0 ELSE OutstandingFalse > 0
  /\ posts' = [flag |-> active,
               appliedTrue |-> posts.appliedTrue + IF active THEN 1 ELSE 0,
               appliedFalse |-> posts.appliedFalse + IF active THEN 0 ELSE 1,
               liveTrue |-> IF active THEN mounted[PostOwner] ELSE posts.liveTrue]
  /\ UNCHANGED <<idA, idB, elected, law, sync, chat, roomVars>>

\* The owner's session and the database; the microphone and the peers play
\* no part in the flag.
NextFlag ==
  \/ \E p \in Ids : LoadAuth(p)
  \/ \E p \in Ids : LoadPostOwner(p)
  \/ \E p \in Ids : Subscribed(p)
  \/ \E p \in Ids : SubscribeTrackDone(p)
  \/ \E p \in Ids : PresenceSync(p)
  \/ \E p \in Ids : BecomeSpeaker(p)
  \/ \E p \in Ids : BecomeSpeakerTrackDone(p)
  \/ \E p \in Ids : BecomeListener(p)
  \/ \E p \in Ids : BecomeListenerTrackDone(p)
  \/ \E p \in Ids : EndRoom(p)
  \/ \E p \in Ids : EndRoomTrackDone(p)
  \/ \E p \in Ids : Leave(p)
  \/ \E active \in BOOLEAN : ApplyWrite(active)

SpecFlag == InitFlag /\ [][NextFlag]_vars

(* ------------------------- a throwing teardown ------------------------ *)
\* the sub-steps of the wiring cleanup that call into a library
Faults == {"unsubscribe", "destroy", "stop"}

\* The page of session p is left and one sub-step of the wiring cleanup
\* throws: channel.unsubscribe() (caught, the relay is not told), the
\* destroy() of the peer for r (caught, that peer is not known to be
\* destroyed), or the stop() of the held stream's track inside stopMic(),
\* which nothing catches: the cleanup ends there, before
\* localStreamRef.current = null, setRemoteStreams({}) and the owner's
\* setRoomActive(false).  The other effects' cleanups still run.
LeaveThrowing(p, fault, r) ==
  /\ mounted[p] /\ profileId[p] # NULL
  /\ fault = "destroy" => pool[p][r].st = "live"
  /\ fault # "destroy" => r = p
  /\ fault = "stop" => localStream[p] # 0
  /\ events < MaxEvents
  /\ events' = events + 1
  /\ LET pres == IF fault = "unsubscribe" THEN spres ELSE [spres EXCEPT ![p] = Absent]
     IN  /\ spres' = pres
         /\ syncDue' = [q \in Ids |->
                          IF q = p THEN FALSE
                          ELSE syncDue[q] \/ (channelRef[q] = "subscribed" /\ pres # spres)]
  /\ mounted' = [mounted EXCEPT ![p] = FALSE]
  /\ profileId' = [profileId EXCEPT ![p] = NULL]
  /\ postOwnerId' = [postOwnerId EXCEPT ![p] = NULL]
  /\ myRole' = [myRole EXCEPT ![p] = "listener"]
  /\ participants' = [participants EXCEPT ![p] = [q \in Ids |-> Absent]]
  /\ channelRef' = [channelRef EXCEPT ![p] = "null"]
  /\ inflight' = {e \in inflight : e.to # p}
  /\ micTimer' = [micTimer EXCEPT ![p] = FALSE]
  /\ pool' = [pool EXCEPT ![p] = [q \in Ids |-> NoPeer]]
  /\ orphans' = [orphans EXCEPT ![p] =
                   [q \in Ids |-> @[q] + IF fault = "destroy" /\ q = r
                                         THEN Leaked(pool[p][q])
                                         ELSE Leaked(DestroyPeer(pool[p][q]))]]
  /\ IF fault = "stop"
     THEN UNCHANGED <<localStream, liveStreams, remoteStreams, writes>>
     ELSE /\ localStream' = [localStream EXCEPT ![p] = 0]
          /\ liveStreams' = [liveStreams EXCEPT ![p] = StoppedStreams(p)]
          /\ remoteStreams' = [remoteStreams EXCEPT ![p] = {}]
          /\ writes' = IF CleanupDeactivates(isOwner(p))
                       THEN setRoomActive(writes, FALSE) ELSE writes
  /\ UNCHANGED <<electVars, micPending, madeActiveOnce, rebuildTimers, conts>>

\* Both sessions join, the owner's microphone starts, and a page is left
\* with a throwing cleanup.
NextFault ==
  \/ \E p \in Ids : LoadAuth(p)
  \/ \E p \in Ids : LoadPostOwner(p)
  \/ \E p \in Ids : Subscribed(p)
  \/ \E p \in Ids : SubscribeTrackDone(p)
  \/ \E p \in Ids : PresenceSync(p)
  \/ \E p \in Ids : MicTimerFire(p)
  \/ \E p \in Ids : GetUserMediaResolve(p)
  \/ \E p \in Ids, fault \in Faults, r \in Ids : LeaveThrowing(p, fault, r)

SpecFault == Init /\ [][NextFault]_vars

(* ----------------------- a refused microphone ------------------------- *)
\* The sessions join and the owner's microphone is asked for, and every
\* getUserMedia call is rejected; nobody clicks, fails or leaves, so the
\* only events counted are getUserMedia calls and the owner's role changes
\* once, from listener to speaker, before the first call.
NextRefused ==
  \/ \E p \in Ids : LoadAuth(p)
  \/ \E p \in Ids : LoadPostOwner(p)
  \/ \E p \in Ids : Subscribed(p)
  \/ \E p \in Ids : SubscribeTrackDone(p)
  \/ \E p \in Ids : PresenceSync(p)
  \/ \E p \in Ids : MicTimerFire(p)
  \/ \E p \in Ids : GetUserMediaReject(p)

SpecRefused == Init /\ [][NextRefused]_vars

(* ------------------ the signal handler on a drawn state --------------- *)
\* One subscribed session q and one signal event delivered to it.  The
\* owner's page is speaker or listener, with or without a stream; any other
\* page is listener.  The pool holds no entry for the sender, or one made as
\* initiator or as responder.  The sender named in the payload is any
\* profile of the room: the session's own id when the event comes from
\* another page of the same profile.
InitSignal ==
  /\ ElectIdle
  /\ \E q \in Ids, from \in Ids, dst \in Ids, role \in Roles, stream \in 0..1,
        had \in {"none", "initiator", "responder"} :
       /\ role = "speaker" => q = PostOwner
       /\ stream # 0 => role = "speaker"
       /\ had # "none" => from # q
       /\ mounted = [p \in Ids |-> p = q]
       /\ profileId = [p \in Ids |-> IF p = q THEN q ELSE NULL]
       /\ postOwnerId = [p \in Ids |-> IF p = q THEN PostOwner ELSE NULL]
       /\ myRole = [p \in Ids |-> IF p = q THEN role ELSE "listener"]
       /\ localStream = [p \in Ids |-> IF p = q THEN stream ELSE 0]
       /\ liveStreams = [p \in Ids |-> IF p = q /\ stream # 0 THEN {stream} ELSE {}]
       /\ pool = [p \in Ids |-> [r \in Ids |->
                    IF p = q /\ r = from /\ had # "none"
                    THEN AttachIfSpeaking(createPeer(had = "initiator", role, "plan"),
                                          role, stream)
                    ELSE NoPeer]]
       /\ channelRef = [p \in Ids |-> IF p = q THEN "subscribed" ELSE "null"]
       /\ spres = [p \in Ids |-> IF p = q THEN role ELSE Absent]
       /\ inflight = {[from |-> from, dst |-> dst, to |-> q]}
  /\ participants = [p \in Ids |-> [r \in Ids |-> Absent]]
  /\ remoteStreams = [p \in Ids |-> {}]
  /\ micPending = [p \in Ids |-> {}]
  /\ orphans = [p \in Ids |-> [r \in Ids |-> 0]]
  /\ madeActiveOnce = [p \in Ids |-> FALSE]
  /\ micTimer = [p \in Ids |-> FALSE]
  /\ rebuildTimers = [p \in Ids |-> [k \in TimerKeys |-> 0]]
  /\ conts = [p \in Ids |-> [c \in Continuations |-> 0]]
  /\ syncDue = [p \in Ids |-> FALSE]
  /\ writes = NoWrites
  /\ events = 0

NextSignal == \E q \in Ids, e \in inflight : Receive(q, e)

SpecSignal == InitSignal /\ [][NextSignal]_vars

(* ----------------------- a PeerLink that closes ------------------------ *)
\* peer.on('close') / peer.on('error'): the PeerLink for r has destroyed
\* itself (its transport closed or failed); both handlers only log, the
\* pool keeps the entry
PeerClosed(p, r) ==
  /\ pool[p][r].st = "live"
  /\ events < MaxEvents
  /\ events' = events + 1
  /\ pool' = [pool EXCEPT ![p][r] = DestroyPeer(@)]
  /\ UNCHANGED <<electVars, mounted, profileId, postOwnerId, myRole, participants,
                 remoteStreams, localStream, liveStreams, micPending,
                 orphans, channelRef, madeActiveOnce, micTimer, rebuildTimers, conts,
                 spres, syncDue, inflight, writes>>

\* The sessions join, plan their links and signal, and PeerLinks close;
\* nobody clicks or leaves.
NextClosed ==
  \/ \E p \in Ids : LoadAuth(p)
  \/ \E p \in Ids : LoadPostOwner(p)
  \/ \E p \in Ids : Subscribed(p)
  \/ \E p \in Ids : SubscribeTrackDone(p)
  \/ \E p \in Ids : PresenceSync(p)
  \/ \E p \in Ids, r \in Ids : PeerSignal(p, r)
  \/ \E p \in Ids, e \in inflight : Receive(p, e)
  \/ \E p \in Ids, r \in Ids : PeerClosed(p, r)

SpecClosed == Init /\ [][NextClosed]_vars

(* --------------- the presence sync handler on a drawn state ----------- *)
\* the keys of a presence state, in the order for..in visits them
KeyOrders == {k \in UNION {[1..n -> Ids] : n \in 0..Cardinality(Ids)} :
                \A i \in 1..Len(k), j \in 1..Len(k) : i # j => k[i] # k[j]}

\* The metas a key can hold: one per page of the profile, each with the role
\* that page tracked.  Only a page of the owner ever tracks speaker.
MetasOf(u) ==
  {m \in UNION {[1..n -> Roles] : n \in 1..MaxMetas} :
     u # PostOwner => \A i \in 1..Len(m) : m[i] = "listener"}

\* a participant list an earlier sync can have left
EarlierLists ==
  {l \in [Ids -> Roles \cup {Absent}] : \A u \in Ids : u # PostOwner => l[u] # "speaker"}

\* a slip: the echoed role is taken for the local id as well
FlatRole_echo(uid, prof, role, metas) == metas[1]

\* uid === profileId ? myRole : meta.role, with meta = state[uid][0]
FlatRole(uid, prof, role, metas) == IF uid = prof THEN role ELSE metas[1]

\* the handler's loop: one push per key of the state
FlatOf(keys, metas, prof, role) ==
  [i \in 1..Len(keys) |->
     [ap_profile_id |-> keys[i], role |-> FlatRole(keys[i], prof, role, metas[keys[i]])]]

\* the participants array as the room model holds it: id -> role
ListOf(flat) ==
  [u \in Ids |->
     IF \E i \in 1..Len(flat) : flat[i].ap_profile_id = u
     THEN flat[CHOOSE i \in 1..Len(flat) : flat[i].ap_profile_id = u].role
     ELSE Absent]

\* One subscribed session q (the owner's page in either role, or another
\* page as listener) with a participant list from an earlier sync, and the
\* presence state its channel holds when the next sync event arrives.
InitSync ==
  /\ idA = NULL /\ idB = NULL /\ elected = <<>> /\ law = LawIdle /\ posts = PostsIdle
  /\ chat = ChatIdle
  /\ \E q \in Ids, role \in Roles, keys \in KeyOrders, prev \in EarlierLists :
       \E metas \in [Ids -> UNION {MetasOf(u) : u \in Ids}] :
         /\ role = "speaker" => q = PostOwner
         /\ \A u \in Ids : metas[u] \in MetasOf(u)
         /\ \A u \in Ids : (\A i \in 1..Len(keys) : keys[i] # u) => metas[u] = <<"listener">>
         /\ sync = [pc |-> "drawn", keys |-> keys, metas |-> metas, prev |-> prev,
                    flat |-> <<>>]
         /\ mounted = [p \in Ids |-> p = q]
         /\ profileId = [p \in Ids |-> IF p = q THEN q ELSE NULL]
         /\ postOwnerId = [p \in Ids |-> IF p = q THEN PostOwner ELSE NULL]
         /\ myRole = [p \in Ids |-> IF p = q THEN role ELSE "listener"]
         /\ participants = [p \in Ids |-> IF p = q THEN prev ELSE [r \in Ids |-> Absent]]
         /\ channelRef = [p \in Ids |-> IF p = q THEN "subscribed" ELSE "null"]
         /\ spres = [u \in Ids |->
                       IF \E i \in 1..Len(keys) : keys[i] = u THEN metas[u][1] ELSE Absent]
         /\ syncDue = [p \in Ids |-> p = q]
  /\ remoteStreams = [p \in Ids |-> {}]
  /\ localStream = [p \in Ids |-> 0]
  /\ liveStreams = [p \in Ids |-> {}]
  /\ micPending = [p \in Ids |-> {}]
  /\ pool = [p \in Ids |-> [r \in Ids |-> NoPeer]]
  /\ orphans = [p \in Ids |-> [r \in Ids |-> 0]]
  /\ madeActiveOnce = [p \in Ids |-> FALSE]
  /\ micTimer = [p \in Ids |-> FALSE]
  /\ rebuildTimers = [p \in Ids |-> [k \in TimerKeys |-> 0]]
  /\ conts = [p \in Ids |-> [c \in Continuations |-> 0]]
  /\ inflight = {}
  /\ writes = NoWrites
  /\ events = 0

\* the presence sync handler, its loop written out, and the re-render that
\* setParticipants(flat) causes
SyncHandler(p) ==
  /\ sync.pc = "drawn"
  /\ channelRef[p] = "subscribed" /\ syncDue[p]
  /\ LET flat == FlatOf(sync.keys, sync.metas, profileId[p], myRole[p])
     IN  /\ sync' = [sync EXCEPT !.pc = "done", !.flat = flat]
         /\ Commit(p, profileId[p], postOwnerId[p], myRole[p], ListOf(flat), TRUE,
                   "skip", writes, FALSE)
  /\ UNCHANGED <<idA, idB, elected, law, posts, chat, mounted, micPending,
                 madeActiveOnce, rebuildTimers, conts, events>>

NextSync == \E p \in Ids : SyncHandler(p)

SpecSync == InitSync /\ [][NextSync]_vars

(* ------------------------- the live-chat page ------------------------- *)
\* A row of post_chats is named by a number; rows are numbered in the order
\* they are inserted, which is the order of sent_at.
MessageIds == 1..MaxMessages

\* .order('sent_at', { ascending: true })
RECURSIVE Ascending(_)
Ascending(rows) ==
  IF rows = {} THEN <<>>
  ELSE LET last == CHOOSE m \in rows : \A n \in rows : n <= m
       IN  Append(Ascending(rows \ {last}), last)

\* The chat page has mounted: the load-history effect has sent its query
\* and the realtime effect has asked to join its channel.  Some messages
\* may have been sent before.
InitChat ==
  /\ idA = NULL /\ idB = NULL /\ elected = <<>> /\ law = LawIdle /\ posts = PostsIdle
  /\ sync = SyncIdle
  /\ \E before \in 0..(MaxMessages - 1) :
       chat = [pc |-> "sent", table |-> 1..before, snapshot |-> {}, messages |-> <<>>,
               sub |-> "joining", due |-> {}, fetching |-> {}, notified |-> {}]
  /\ RoomInit({})

\* the database runs the history query
LoadHistoryQuery ==
  /\ chat.pc = "sent"
  /\ chat' = [chat EXCEPT !.pc = "read", !.snapshot = chat.table]
  /\ UNCHANGED <<idA, idB, elected, law, posts, sync, roomVars>>

\* the history query's await returns: setMessages(data ?? [])
LoadHistoryDone ==
  /\ chat.pc = "read"
  /\ chat' = [chat EXCEPT !.pc = "done", !.messages = Ascending(chat.snapshot)]
  /\ UNCHANGED <<idA, idB, elected, law, posts, sync, roomVars>>

\* the realtime channel of the page is joined
ChatSubscribed ==
  /\ chat.sub = "joining"
  /\ chat' = [chat EXCEPT !.sub = "joined"]
  /\ UNCHANGED <<idA, idB, elected, law, posts, sync, roomVars>>

\* somebody's sendMessage inserts a row; a joined channel is notified
InsertMessage ==
  /\ Cardinality(chat.table) < MaxMessages
  /\ LET m == Cardinality(chat.table) + 1
     IN  chat' = [chat EXCEPT !.table = @ \cup {m},
                              !.due = IF chat.sub = "joined" THEN @ \cup {m} ELSE @]
  /\ UNCHANGED <<idA, idB, elected, law, posts, sync, roomVars>>

\* the INSERT handler starts: it selects the row by id and awaits
InsertNotified(m) ==
  /\ m \in chat.due
  /\ chat' = [chat EXCEPT !.due = @ \ {m}, !.fetching = @ \cup {m},
                          !.notified = @ \cup {m}]
  /\ UNCHANGED <<idA, idB, elected, law, posts, sync, roomVars>>

\* the INSERT handler resumes: setMessages((prev) => [...prev, data])
InsertFetched(m) ==
  /\ m \in chat.fetching
  /\ chat' = [chat EXCEPT !.fetching = @ \ {m}, !.messages = Append(@, m)]
  /\ UNCHANGED <<idA, idB, elected, law, posts, sync, roomVars>>

NextChat ==
  \/ LoadHistoryQuery
  \/ LoadHistoryDone
  \/ ChatSubscribed
  \/ InsertMessage
  \/ \E m \in MessageIds : InsertNotified(m)
  \/ \E m \in MessageIds : InsertFetched(m)

SpecChat == InitChat /\ [][NextChat]_vars

(* ------------------------------ properties ---------------------------- *)
\* C1: no PeerLink exists between two listeners: when the local role is
\* listener and remote R is a listener (by its own state, by what it has
\* announced and by the local participants list), the local pool holds no
\* entry for R.
NoListenerListenerLink ==
  \A p \in Ids, r \in Ids :
    ( /\ p # r /\ mounted[p] /\ mounted[r]
      /\ myRole[p] = "listener" /\ myRole[r] = "listener"
      /\ spres[r] = "listener" /\ participants[p][r] = "listener" )
    => pool[p][r].st = "none"

\* C2: a signal envelope emitted by A's PeerLink for B is consumed only by
\* B's PeerLink for A: every envelope a session's PeerLink has consumed
\* was emitted by a PeerLink created for that session.
ConsumedOnlyByAddressee ==
  \A q \in Ids, r \in Ids :
    pool[q][r].st # "none" => pool[q][r].got \subseteq {q}

\* C3: once the role is listener or the page is gone, and no debounced
\* microphone control is still due, no local stream is held and every
\* acquired stream has been stopped.
StreamOnlyWhileSpeaker ==
  \A p \in Ids :
    ((myRole[p] = "listener" \/ ~mounted[p]) /\ ~micTimer[p])
    => (localStream[p] = 0 /\ liveStreams[p] = {})

\* C4: one acquire/release lifecycle: at most one microphone stream is
\* acquired or being acquired at a time, and a stream that is capturing is
\* the one localStreamRef holds.
SingleMicLifecycle ==
  \A p \in Ids :
    /\ Cardinality(liveStreams[p] \cup micPending[p]) <= 1
    /\ liveStreams[p] \subseteq {localStream[p]}

\* C5: from any prior state, stopMic() followed by startMic() while the role
\* is listener ends with localStreamRef empty, the stream that was held
\* stopped, and no getUserMedia call started.
StopStartLaw ==
  (law.pc = "started" /\ myRole[PostOwner] = "listener")
  => /\ localStream[PostOwner] = 0
     /\ law.held \notin liveStreams[PostOwner]
     /\ micPending[PostOwner] = law.pending

\* the law applied to a listener that held a stream and had a call pending
StopStartLawApplied ==
  /\ law.pc = "started" /\ myRole[PostOwner] = "listener"
  /\ law.held # 0 /\ law.pending # {}
  /\ liveStreams[PostOwner] # {}

\* string order, stated without recursion: a precedes b when a is a proper
\* prefix of b or the first code unit where they differ is smaller in a
Precedes(a, b) ==
  \E k \in 0..Len(a) :
    /\ k <= Len(b)
    /\ \A i \in 1..k : a[i] = b[i]
    /\ \/ (k = Len(a) /\ k < Len(b))
       \/ (k < Len(a) /\ k < Len(b) /\ a[k + 1] < b[k + 1])

\* C6: the election is antisymmetric on distinct ids, and isInitiator(A, B)
\* holds exactly when A precedes B in string order.
ElectionAntisymmetric ==
  elected # <<>>
  => /\ elected[1] = Precedes(idA, idB)
     /\ elected[2] = Precedes(idB, idA)
     /\ idA # idB => elected[1] = ~elected[2]

\* the election on two ids that share their first code unit, the longer one
\* being the greater
ElectionOnSharedPrefix ==
  /\ elected # <<>>
  /\ idA # NULL /\ idB # NULL /\ idA # idB
  /\ idA[1] = idB[1] /\ Len(idA) < Len(idB)
  /\ elected = <<TRUE, FALSE>>

\* C7: every PeerLink in the pool was created with
\* initiator = (localId < remoteId).
InitiatorIsSmallerId ==
  \A p \in Ids, r \in Ids :
    (p # r /\ pool[p][r].st = "live") => pool[p][r].initiator = StrLess(p, r)

\* C8: a peer object that leaves the pool, or is replaced in it, has been
\* destroyed first: no live peer object exists outside the pool, which
\* holds at most one object per remote id.
NoLivePeerOutsidePool ==
  \A p \in Ids, r \in Ids : orphans[p][r] = 0

\* a rebuilt PeerLink sits in the pool, its predecessor destroyed
RebuiltInPool ==
  \E p \in Ids, r \in Ids :
    /\ pool[p][r].st = "live" /\ pool[p][r].origin = "rebuild"
    /\ orphans[p][r] = 0

\* what C9 asks for after the rebuild delay: the predecessor destroyed, R's
\* remote stream removed, one replacement in the pool made by the election
ReplacedAfterDelay(p, r) ==
  /\ pool'[p][r].st = "live" /\ pool'[p][r].origin = "rebuild"
  /\ pool'[p][r].got = {}
  /\ pool'[p][r].initiator = StrLess(p, r)
  /\ r \notin remoteStreams'[p]
  /\ orphans'[p][r] = orphans[p][r]

\* C9 as stated: whenever the rebuild delay of a failure report for R
\* elapses, the old PeerLink is destroyed, R's remote stream is removed and
\* one replacement for R is in the pool.
RebuildAlwaysReplaces ==
  [][\A p \in Ids, r \in Ids, crole \in Roles :
       RebuildTimerFire(p, r, crole) => ReplacedAfterDelay(p, r)]_vars

\* C9, amended: whenever the rebuild delay elapses while the pool still
\* holds an entry for R, the old PeerLink is destroyed, R's remote stream is
\* removed and one replacement for R is in the pool, made by the election;
\* when the pool holds no entry for R the pool and the remote streams stay
\* as they are.
RebuildReplacesPoolEntry ==
  [][\A p \in Ids, r \in Ids, crole \in Roles :
       RebuildTimerFire(p, r, crole)
       => IF pool[p][r].st # "none"
          THEN ReplacedAfterDelay(p, r)
          ELSE pool' = pool /\ remoteStreams' = remoteStreams]_vars

\* a replacement made as initiator, with no remote stream for R left
RebuiltAsInitiator ==
  \E p \in Ids, r \in Ids :
    /\ pool[p][r].st = "live" /\ pool[p][r].origin = "rebuild"
    /\ pool[p][r].initiator /\ r \notin remoteStreams[p]

\* C10: the owner writes audio_room_active = true at most once in a session.
ActivatedAtMostOnce == writes.trues <= 1

\* the owner, having activated the room and left the speaker role once,
\* has clicked Become Speaker again and its continuation is about to run
SecondActivationSiteDue ==
  /\ mounted[PostOwner] /\ myRole[PostOwner] = "speaker"
  /\ writes.trues = 1 /\ writes.falses >= 2
  /\ madeActiveOnce[PostOwner]
  /\ conts[PostOwner]["becomeSpeaker"] > 0

\* C11: when the owner leaves the room while the flag is true, the teardown
\* issues a write of false, and once every issued write has been applied
\* the flag is false.
FlagFalseAfterOwnerLeft ==
  /\ [][(Leave(PostOwner) /\ isOwner(PostOwner))
        => writes'.falses = writes.falses + 1]_vars
  /\ []((~mounted[PostOwner] /\ posts.liveTrue
         /\ OutstandingTrue = 0 /\ OutstandingFalse = 0)
        => posts.flag = FALSE)

\* the owner has left while the flag was true, and the teardown's write of
\* false is the one update still to be applied
OwnerLeftWhileActive ==
  /\ ~mounted[PostOwner] /\ posts.liveTrue /\ posts.flag = TRUE
  /\ OutstandingTrue = 0 /\ OutstandingFalse = 1
  /\ writes.last = "false"

\* C12: every becomeListener of the owner and every endRoom issues a write
\* of false (at the latest when the call resumes after its await), and
\* nothing a non-owner does with the role buttons writes the flag.
DeactivationWritten ==
  [][\A p \in Ids :
       /\ BecomeListener(p)
          => IF isOwner(p)
             THEN /\ writes'.falses >= writes.falses + 1
                  /\ conts'[p]["becomeListener"] = conts[p]["becomeListener"] + 1
             ELSE writes' = writes /\ conts'[p] = conts[p]
       /\ BecomeListenerTrackDone(p)
          => p = PostOwner /\ writes'.falses = writes.falses + 1
       /\ EndRoom(p)
          => isOwner(p) /\ conts'[p]["endRoom"] = conts[p]["endRoom"] + 1
       /\ EndRoomTrackDone(p)
          => p = PostOwner /\ writes'.falses >= writes.falses + 1
       /\ (p # PostOwner /\ BecomeSpeaker(p))
          => writes' = writes /\ conts'[p] = conts[p]]_vars

\* the owner has made one click that ended its speaking, and both the
\* teardown and the resumed call have written false
OwnerDeactivated ==
  /\ mounted[PostOwner] /\ myRole[PostOwner] = "listener"
  /\ events = 1
  /\ conts[PostOwner]["becomeListener"] = 0 /\ conts[PostOwner]["endRoom"] = 0
  /\ writes.falses >= 3 /\ writes.last = "false"

\* C13: while the owner has issued no write of true, a session that is not
\* the owner's has role listener, has announced no speaker presence, has
\* acquired and is acquiring no microphone, and has no becomeSpeaker call
\* under way that could write the flag, however often it clicks
\* Become Speaker.
NonOwnerStaysListener ==
  \A p \in Ids :
    (p # PostOwner /\ writes.trues = 0)
    => /\ myRole[p] = "listener"
       /\ spres[p] # "speaker"
       /\ localStream[p] = 0 /\ liveStreams[p] = {} /\ micPending[p] = {}
       /\ conts[p]["becomeSpeaker"] = 0

\* a subscribed non-owner that sees the owner speaking, and so is offered
\* the Become Speaker button, before the owner's write of true
NonOwnerBeforeActivation ==
  \E p \in Ids :
    /\ p # PostOwner /\ mounted[p] /\ profileId[p] = p
    /\ channelRef[p] = "subscribed" /\ myRole[p] # "speaker"
    /\ participants[p][PostOwner] = "speaker"
    /\ writes.trues = 0

\* everything the page of session p does: its effects, handlers, timers and
\* resumed calls
SessionStep(p) ==
  \/ LoadAuth(p) \/ LoadPostOwner(p) \/ Subscribed(p) \/ SubscribeTrackDone(p)
  \/ PresenceSync(p) \/ MicTimerFire(p) \/ GetUserMediaResolve(p)
  \/ GetUserMediaReject(p) \/ BecomeSpeaker(p) \/ BecomeSpeakerTrackDone(p)
  \/ BecomeListener(p) \/ BecomeListenerTrackDone(p) \/ EndRoom(p)
  \/ EndRoomTrackDone(p) \/ Leave(p)
  \/ \E r \in Ids : PeerSignal(p, r) \/ RemoteStream(p, r) \/ IceStateFailed(p, r)
                    \/ ConnStateFailed(p, r)
  \/ \E r \in Ids, crole \in Roles : RebuildTimerFire(p, r, crole)
  \/ \E e \in inflight : Receive(p, e)

\* C14: the flag is written by the owner's session only: nothing the page of
\* another profile does issues an update, and an update is issued by a page
\* whose profileId and postOwnerId are the post's owner (or by a call that
\* page started before it was left).
OnlyOwnerWrites ==
  [][/\ \A p \in Ids : (p # PostOwner /\ SessionStep(p)) => writes' = writes
     /\ writes' # writes
        => \/ ~mounted[PostOwner]
           \/ (profileId[PostOwner] = PostOwner /\ postOwnerId[PostOwner] = PostOwner)]_vars

\* the owner has written both values while another profile's page is
\* subscribed and linked to the owner
WritesBesideNonOwner ==
  \E p \in Ids :
    /\ p # PostOwner /\ mounted[p] /\ channelRef[p] = "subscribed"
    /\ pool[p][PostOwner].st = "live"
    /\ writes.trues = 1 /\ writes.falses >= 1

\* the step runs the wiring effect's cleanup at session p: the effect had
\* run (profileId was set) and one of its dependencies changes, or the page
\* is left
TornDown(p) ==
  /\ profileId[p] # NULL
  /\ \/ myRole'[p] # myRole[p]
     \/ profileId'[p] # profileId[p]
     \/ IsOwnerOf(profileId'[p], postOwnerId'[p]) # isOwner(p)

\* C15: a teardown leaves no partial state.  When the wiring cleanup has run
\* the session's channel is unsubscribed (its presence is gone) and
\* channelRef is null or already the next channel; every peer that was in
\* the pool has been destroyed and the pool holds nothing but peers the
\* re-run peer-plan effect has just made; no local stream is held and the
\* held one is stopped; the remote-stream map is empty.  After the page is
\* left, channelRef is null and the pool is empty.
TeardownIsComplete ==
  [][\A p \in Ids :
       TornDown(p)
       => /\ spres'[p] = Absent
          /\ channelRef'[p] \in {"null", "joining"}
          /\ \A r \in Ids :
               \/ pool'[p][r] = NoPeer
               \/ (pool'[p][r].origin = "plan" /\ pool'[p][r].got = {}
                   /\ pool'[p][r].tracks = {})
          /\ orphans'[p] = orphans[p]
          /\ localStream'[p] = 0
          /\ localStream[p] \notin liveStreams'[p]
          /\ remoteStreams'[p] = {}
          /\ ~mounted'[p]
             => (channelRef'[p] = "null" /\ \A r \in Ids : pool'[p][r] = NoPeer)]_vars

\* a session that was linked to r and was heard by r has left, and nothing
\* of its wiring is kept
LeftAfterBeingHeard ==
  \E p \in Ids, r \in Ids :
    /\ ~mounted[p] /\ channelRef[p] = "null" /\ spres[p] = Absent
    /\ \A q \in Ids : pool[p][q] = NoPeer
    /\ localStream[p] = 0 /\ liveStreams[p] = {} /\ remoteStreams[p] = {}
    /\ mounted[r] /\ pool[r][p].st = "live" /\ p \in remoteStreams[r]

\* C16: a teardown in which one sub-step throws still completes: the other
\* peers are destroyed, the pool is cleared, the local stream is stopped and
\* released, the remote-stream map is cleared and the owner's write of
\* false is issued.
ThrowingTeardownCompletes ==
  [][\A p \in Ids, fault \in Faults, r \in Ids :
       LeaveThrowing(p, fault, r)
       => /\ \A q \in Ids : pool'[p][q] = NoPeer
          /\ \A q \in Ids : q # r => orphans'[p][q] = orphans[p][q]
          /\ localStream'[p] = 0
          /\ localStream[p] \notin liveStreams'[p]
          /\ remoteStreams'[p] = {}
          /\ isOwner(p) => writes'.falses = writes.falses + 1]_vars

RoleChangeKeepsStream ==
  [][\A p \in Ids :
       (mounted'[p] /\ myRole'[p] # myRole[p])
       => (localStream'[p] = localStream[p] /\ liveStreams'[p] = liveStreams[p])]_vars

\* C19: a failed microphone acquisition is not retried: once a getUserMedia
\* call of a session has been rejected and none is pending, no new call is
\* started while the role stays as it is.
FailedAcquisitionNotRetried ==
  [][\A p \in Ids :
       (events > 0 /\ micPending[p] = {} /\ myRole'[p] = myRole[p])
       => micPending'[p] = {}]_vars

\* C20: a signal event whose from differs from the local id is passed to the
\* pool's PeerLink for from, which is first created as responder and stored
\* under from when the pool has no entry; no other entry changes.  A signal
\* event whose from is the local id changes nothing.
SignalRoutedToSender ==
  [][\A q \in Ids, e \in inflight :
       Receive(q, e)
       => IF e.from = profileId[q]
          THEN /\ pool' = pool /\ remoteStreams' = remoteStreams
               /\ localStream' = localStream /\ liveStreams' = liveStreams
               /\ myRole' = myRole
          ELSE LET had == pool[q][e.from]
                   now == pool'[q][e.from]
               IN  /\ now.st = "live" /\ e.dst \in now.got
                   /\ had.st = "none" => (~now.initiator /\ now.origin = "signal")
                   /\ had.st # "none" => (now.initiator = had.initiator
                                          /\ now.origin = had.origin)
                   /\ \A r \in Ids : r # e.from => pool'[q][r] = pool[q][r]
                   /\ myRole' = myRole]_vars

\* the handler has made a responder for a sender that the election would
\* have made this session call
ResponderMadeOnDemand ==
  \E q \in Ids, r \in Ids :
    /\ inflight = {} /\ mounted[q]
    /\ pool[q][r].st = "live" /\ pool[q][r].origin = "signal"
    /\ ~pool[q][r].initiator /\ pool[q][r].got # {}
    /\ isInitiator(q, r)

\* the ids a presence state has a key for
KeysOf(keys) == {keys[i] : i \in 1..Len(keys)}

\* C21: a presence sync replaces the participant list by one
\* {participantId, role} pair per key of the presence state, with the local
\* role for the local id and the first meta's role for every other id; a
\* participant of an earlier sync that has no key is not in the list.
SyncReplacesList ==
  \A p \in Ids :
    (mounted[p] /\ sync.pc = "done")
    => /\ Len(sync.flat) = Len(sync.keys)
       /\ \A u \in Ids :
            Cardinality({i \in 1..Len(sync.flat) : sync.flat[i].ap_profile_id = u})
              = IF u \in KeysOf(sync.keys) THEN 1 ELSE 0
       /\ \A i \in 1..Len(sync.flat) :
            sync.flat[i].role = IF sync.flat[i].ap_profile_id = profileId[p]
                                THEN myRole[p]
                                ELSE sync.metas[sync.flat[i].ap_profile_id][1]
       /\ \A u \in Ids :
            participants[p][u] =
              IF u \notin KeysOf(sync.keys) THEN Absent
              ELSE IF u = p THEN myRole[p]
              ELSE sync.metas[u][1]
       /\ participants[p] = Flatten(p)

\* a sync whose state echoes a stale role for the local id, holds two metas
\* for another key, and lacks a participant of the earlier list
StaleEchoAndGoneParticipant ==
  \E p \in Ids, u \in Ids, g \in Ids :
    /\ mounted[p] /\ sync.pc = "done"
    /\ p \in KeysOf(sync.keys) /\ sync.metas[p][1] # myRole[p]
    /\ u # p /\ u \in KeysOf(sync.keys) /\ Len(sync.metas[u]) = 2
    /\ participants[p][u] = sync.metas[u][1]
    /\ g \notin KeysOf(sync.keys) /\ sync.prev[g] # Absent /\ participants[p][g] = Absent

\* C22: every session, the owner's included, joins as listener and is
\* announced as listener, and a role becomes speaker only by a
\* Become Speaker click, never by the subscribe callback.
JoinsAsListener ==
  [][\A p \in Ids :
       /\ Subscribed(p) => (myRole'[p] = "listener" /\ spres'[p] = "listener")
       /\ (myRole[p] # "speaker" /\ myRole'[p] = "speaker") => BecomeSpeaker(p)]_vars

\* C23: once a sync has listed remote R and the peer-plan effect has run,
\* the pool holds an entry for R whenever the local role is speaker or R is
\* listed as speaker; and while the pool holds an entry for R no second
\* PeerLink for R is made, except by a teardown or a rebuild.
MeshComplete ==
  /\ [](\A p \in Ids, r \in Ids :
          ( /\ p # r /\ profileId[p] # NULL /\ participants[p][r] # Absent
            /\ (myRole[p] = "speaker" \/ participants[p][r] = "speaker") )
          => pool[p][r].st # "none")
  /\ [][\A p \in Ids, r \in Ids :
          ( /\ pool[p][r].st # "none" /\ ~TornDown(p)
            /\ ~\E crole \in Roles : RebuildTimerFire(p, r, crole) )
          => /\ pool'[p][r].st # "none"
             /\ pool'[p][r].origin = pool[p][r].origin
             /\ pool'[p][r].initiator = pool[p][r].initiator
             /\ orphans'[p][r] = orphans[p][r]]_vars

\* the speaking owner is linked to a listener by the plan, and the
\* listener to the owner, each knowing the other from a sync
SpeakerLinkedBothWays ==
  \E r \in Ids :
    /\ r # PostOwner /\ myRole[PostOwner] = "speaker" /\ myRole[r] = "listener"
    /\ participants[PostOwner][r] = "listener" /\ participants[r][PostOwner] = "speaker"
    /\ pool[PostOwner][r].st = "live" /\ pool[PostOwner][r].origin = "plan"
    /\ pool[r][PostOwner].st = "live" /\ pool[r][PostOwner].origin = "plan"

\* C24: a rebuild destroys only the PeerLink whose own transport reported
\* the failure: a rebuild timer that fires while the pool holds a PeerLink
\* for R that has reported no failure leaves that PeerLink as it is.
RebuildSparesHealthyLink ==
  [][\A p \in Ids, r \in Ids, crole \in Roles :
       ( /\ RebuildTimerFire(p, r, crole)
         /\ pool[p][r].st = "live" /\ ~pool[p][r].failed )
       => (pool'[p][r] = pool[p][r] /\ orphans'[p][r] = orphans[p][r])]_vars

\* C25: a signal is never handed to a destroyed PeerLink: whenever the
\* signal handler finds a pool entry for the sender, that entry is a live
\* peer.
SignalsReachLivePeers ==
  [][\A q \in Ids, e \in inflight :
       (Receive(q, e) /\ e.from # profileId[q] /\ pool[q][e.from].st # "none")
       => pool[q][e.from].st = "live"]_vars

\* C26: once the owner has stepped down from speaker (Become Listener or
\* End Room, after having activated the room), the owner's role stays
\* listener until the next Become Speaker click: a later channel
\* subscription does not make it speaker again, and no microphone is asked
\* for while the role is listener.
StaysListenerAfterStepDown ==
  [][\A p \in Ids :
       (madeActiveOnce[p] /\ mounted[p] /\ myRole[p] = "listener")
       => /\ myRole'[p] = "speaker" => BecomeSpeaker(p)
          /\ micPending'[p] \subseteq micPending[p]]_vars

\* no call of the owner's page is suspended at an await
OwnerCallsSettled == \A c \in Continuations : conts[PostOwner][c] = 0

\* C27: the flag agrees with the owner's role: whenever the owner is in the
\* room as speaker, no call of its page is still to write and every issued
\* update has been applied, the last value written is true.
FlagAgreesWithSpeaker ==
  ( /\ mounted[PostOwner] /\ isOwner(PostOwner) /\ myRole[PostOwner] = "speaker"
    /\ channelRef[PostOwner] = "subscribed" /\ OwnerCallsSettled
    /\ OutstandingTrue = 0 /\ OutstandingFalse = 0 )
  => writes.last = "true"

\* C28: a Become Speaker or Become Listener click that changes the role
\* leaves the subscription and the pool as they are: the channel stays,
\* every PeerLink of the pool stays the same object, and no remote stream
\* is dropped.
RoleChangeKeepsMesh ==
  [][\A p \in Ids :
       ((BecomeSpeaker(p) \/ BecomeListener(p)) /\ myRole'[p] # myRole[p])
       => /\ channelRef'[p] = channelRef[p]
          /\ \A r \in Ids :
               pool[p][r].st # "none"
               => /\ pool'[p][r].st = pool[p][r].st
                  /\ pool'[p][r].origin = pool[p][r].origin
                  /\ pool'[p][r].got = pool[p][r].got
          /\ remoteStreams'[p] = remoteStreams[p]]_vars

\* C29: after the page is left the pool stays empty: a rebuild timer armed
\* before the teardown that fires afterwards finds no entry, makes no
\* PeerLink and sends no signal.
PoolEmptyAfterLeaving ==
  /\ [](\A p \in Ids : ~mounted[p] => \A r \in Ids : pool[p][r] = NoPeer)
  /\ [][\A p \in Ids, r \in Ids, crole \in Roles :
          (RebuildTimerFire(p, r, crole) /\ ~mounted[p])
          => /\ pool' = pool /\ orphans' = orphans
             /\ inflight' = inflight /\ remoteStreams' = remoteStreams]_vars

\* a session has left while a rebuild timer of its link to r was armed, and
\* r is still in the room
RebuildTimerOutlivesPage ==
  \E p \in Ids, r \in Ids, crole \in Roles :
    /\ ~mounted[p] /\ rebuildTimers[p][<<r, crole>>] > 0
    /\ \A q \in Ids : pool[p][q] = NoPeer
    /\ mounted[r] /\ channelRef[r] = "subscribed"

\* how often message m is in the displayed list
Shown(m) == Cardinality({i \in 1..Len(chat.messages) : chat.messages[i] = m})

\* C30: once the history load has completed and every notification has
\* been handled, every message that was in the loaded history or was
\* announced by a notification is in the displayed list exactly once, in
\* whatever order the load and the notifications were handled.
EveryMessageShownOnce ==
  (chat.pc = "done" /\ chat.due = {} /\ chat.fetching = {})
  => \A m \in chat.snapshot \cup chat.notified : Shown(m) = 1

====
